---- MODULE Spec2Model ----
(***************************************************************************)
(* Veritas backend (src/veritas-backend/main.py): the fact-checking        *)
(* pipeline behind POST /analyze.                                          *)
(*                                                                         *)
(*   SpecClient  the retry loop of query_gemini_text / query_gemini_vision *)
(*   SpecRate    check_rate_limit, called sequentially                     *)
(*   SpecConc    several analyze_content coroutines on one event loop      *)
(*   SpecExtract the extraction of the claims of one text                  *)
(*   SpecVerify  the verification of one claim, on every response          *)
(*   SpecLoop    the verification loop over a list of claims               *)
(*   SpecSynth   synthesize_final_report on arbitrary breakdowns           *)
(*   SpecClean   clean_json_response on documents of every shape           *)
(*   Spec        one analyze_content request, front to back                *)
(*                                                                         *)
(* Text is a sequence of one-character strings.  A response of the         *)
(* generation service is a record that says what json.loads makes of it.   *)
(***************************************************************************)
EXTENDS Integers, Sequences, FiniteSets, TLC

VARIABLES
    \* ---- query_gemini_text / query_gemini_vision (one call) ----
    c_modality,     \* "text" | "vision"
    c_max,          \* max_retries
    c_attempt,      \* the loop variable `attempt`
    c_pc,           \* "try" | "sleep" | "returned" | "raised"
    c_log,          \* one record per attempt made: outcome and the wait that followed
    c_result,       \* "none" | "service" | "fallback"
    \* ---- check_rate_limit ----
    request_times,  \* the ledger: client_ip -> list of timestamps
    now,            \* time.time()
    ticks,          \* clock advances so far
    accepted,       \* history: client_ip -> timestamps of all accepted requests
    last_check,     \* the last check made: caller, time, answer
    \* ---- coroutines of analyze_content (SpecConc) ----
    req,            \* request id -> [ip, pc, t, status]
    \* ---- one request through the pipeline (Spec, SpecVerify, SpecSynth) ----
    gen_text,       \* the last generation call of the stage under test
                    \* (SpecVerify, SpecLoop, SpecExtract, SpecSynth)
    service_answered, \* history: some generation call of this request got its
                    \* text from the service, not from _create_fallback_analysis
    pc,             \* position of the request
    input,          \* the AnalysisRequest and what fetching it gives
    text_to_analyze,
    claims,         \* the extracted claims
    idx,            \* claims verified so far
    verified_breakdown,
    synth_path,     \* which branch of synthesize_final_report built the report
    report,         \* the AnalysisResponse, or NoReport
    status,         \* HTTP status of the answer, 0 while running
    \* ---- clean_json_response (SpecClean) ----
    clean_pc,       \* "idle" | "call" | "returned" | "raised"
    clean_doc,      \* the argument: its text and what json.loads makes of it
    clean_result    \* the string returned

client_vars == <<c_modality, c_max, c_attempt, c_pc, c_log, c_result>>
rate_vars   == <<request_times, now, ticks, accepted, last_check>>
conc_vars   == <<req>>
pipe_vars   == <<gen_text, service_answered, pc, input, text_to_analyze, claims, idx, verified_breakdown,
                 synth_path, report, status>>
clean_vars  == <<clean_pc, clean_doc, clean_result>>
vars == <<client_vars, rate_vars, conc_vars, pipe_vars, clean_vars>>

-----------------------------------------------------------------------------
(* Bounds *)

MaxRetriesBound == 4      \* max_retries ranges over 0..MaxRetriesBound
MaxClaims == 3            \* longest structured claim list the service returns
MaxBreakdown == 5         \* longest breakdown handed to SpecSynth
MaxAccepted == 12         \* accepted requests recorded in one run of SpecRate / SpecConc
MaxTicks == 2             \* clock advances in one run of SpecRate / SpecConc
MaxInFlight == 2          \* coroutines of analyze_content alive at once in SpecConc

-----------------------------------------------------------------------------
(* Text helpers *)

Min(a, b) == IF a <= b THEN a ELSE b

\* s[:n]
Prefix(s, n) == SubSeq(s, 1, Min(n, Len(s)))

Whitespace == {" ", "\n"}

\* str.strip()
Strip(s) ==
    LET kept == {i \in 1..Len(s) : s[i] \notin Whitespace} IN
    IF kept = {} THEN <<>>
    ELSE SubSeq(s, CHOOSE a \in kept : \A b \in kept : a <= b,
                   CHOOSE a \in kept : \A b \in kept : a >= b)

\* sub in s
Contains(s, sub) ==
    \E i \in 1..(Len(s) - Len(sub) + 1) : SubSeq(s, i, i + Len(sub) - 1) = sub

\* the first line of s (s.split('\n')[0])
FirstLine(s) ==
    LET breaks == {i \in 1..Len(s) : s[i] = "\n"} IN
    IF breaks = {} THEN s
    ELSE SubSeq(s, 1, (CHOOSE a \in breaks : \A b \in breaks : a <= b) - 1)

-----------------------------------------------------------------------------
(* query_gemini_text / query_gemini_vision: the retry loop *)

Outcomes == {"ok", "rate_limit", "error"}

RECURSIVE Pow2(_)
Pow2(n) == IF n = 0 THEN 1 ELSE 2 * Pow2(n - 1)

\* wait_time = (2 ** attempt) * 2 for a 429/quota error, asyncio.sleep(1) otherwise
WaitTimeAllOnes(attempt, outcome) == 1
WaitTimeBacksOffAlways(attempt, outcome) == Pow2(attempt) * 2
WaitTime(attempt, outcome) ==
    IF outcome = "rate_limit" THEN Pow2(attempt) * 2 ELSE 1

\* One iteration of `for attempt in range(max_retries)`: what happens after the
\* generation call ended with `outcome`.  wait = 0: asyncio.sleep is not called.
AttemptStepRaises(attempt, max_retries, outcome) ==
    IF outcome = "ok" THEN [next |-> "return_text", wait |-> 0]
    ELSE IF attempt < max_retries - 1
         THEN [next |-> "retry", wait |-> WaitTime(attempt, outcome)]
         ELSE [next |-> "raise", wait |-> 0]
AttemptStep(attempt, max_retries, outcome) ==
    IF outcome = "ok" THEN [next |-> "return_text", wait |-> 0]
    ELSE IF attempt < max_retries - 1
         THEN [next |-> "retry", wait |-> WaitTime(attempt, outcome)]
         ELSE [next |-> "fallback", wait |-> 0]

ClientInit ==
    /\ c_modality \in {"text", "vision"}
    /\ c_max \in 0..MaxRetriesBound
    /\ c_attempt = 0
    /\ c_pc = "try"
    /\ c_log = <<>>
    /\ c_result = "none"

ClientIdle ==
    /\ c_modality = "text"
    /\ c_max = 3
    /\ c_attempt = 0
    /\ c_pc = "returned"
    /\ c_log = <<>>
    /\ c_result = "none"

\* the body of the loop: the generation call of this attempt and its handler
ClientAttempt ==
    /\ c_pc = "try"
    /\ c_attempt < c_max
    /\ \E outcome \in Outcomes :
         LET step == AttemptStep(c_attempt, c_max, outcome) IN
         /\ c_log' = Append(c_log, [attempt |-> c_attempt, outcome |-> outcome,
                                    wait |-> step.wait])
         /\ c_pc' = CASE step.next = "retry" -> "sleep"
                      [] step.next = "raise" -> "raised"
                      [] OTHER -> "returned"
         /\ c_result' = CASE step.next = "return_text" -> "service"
                          [] step.next = "fallback" -> "fallback"
                          [] OTHER -> "none"
    /\ UNCHANGED <<c_modality, c_max, c_attempt>>
    /\ UNCHANGED <<rate_vars, conc_vars, pipe_vars, clean_vars>>

\* asyncio.sleep(wait) returns; `continue`
ClientSleepDone ==
    /\ c_pc = "sleep"
    /\ c_attempt' = c_attempt + 1
    /\ c_pc' = "try"
    /\ UNCHANGED <<c_modality, c_max, c_log, c_result>>
    /\ UNCHANGED <<rate_vars, conc_vars, pipe_vars, clean_vars>>

\* range(max_retries) is exhausted without a return: the statement after the loop
ClientLoopExit ==
    /\ c_pc = "try"
    /\ c_attempt >= c_max
    /\ c_pc' = "returned"
    /\ c_result' = "fallback"
    /\ UNCHANGED <<c_modality, c_max, c_attempt, c_log>>
    /\ UNCHANGED <<rate_vars, conc_vars, pipe_vars, clean_vars>>

\* The whole call as a function of the outcomes of its attempts (outs[k+1] is the
\* outcome of attempt k): "service" when an attempt succeeded, else "fallback".
RECURSIVE query_loop(_, _, _)
query_loop(attempt, max_retries, outs) ==
    IF attempt >= max_retries THEN "fallback"
    ELSE LET step == AttemptStep(attempt, max_retries, outs[attempt + 1]) IN
         CASE step.next = "return_text" -> "service"
           [] step.next = "retry" -> query_loop(attempt + 1, max_retries, outs)
           [] OTHER -> step.next

DEFAULT_MAX_RETRIES == 3

-----------------------------------------------------------------------------
(* check_rate_limit *)

RATE_LIMIT_WINDOW == 60
MAX_REQUESTS_PER_WINDOW == 10

IPs == {"ip_a", "ip_b"}
\* seconds the clock advances in one Tick: half a window, so that a request is
\* exactly one window old after two of them
TickStep == RATE_LIMIT_WINDOW \div 2

\* [req_time for req_time in request_times[client_ip] if now - req_time < RATE_LIMIT_WINDOW]
CleanOld(times, t) == SelectSeq(times, LAMBDA req_time : t - req_time < RATE_LIMIT_WINDOW)

\* lines 92-100: now = time.time(); the ledger entry is replaced by its cleaned
\* list; the answer is False when that list is full
rate_check_off_by_one(ledger, client_ip, t) ==
    LET cleaned == CleanOld(ledger[client_ip], t) IN
    [ok |-> ~(Len(cleaned) > MAX_REQUESTS_PER_WINDOW),
     ledger |-> [ledger EXCEPT ![client_ip] = cleaned]]
rate_check(ledger, client_ip, t) ==
    LET cleaned == CleanOld(ledger[client_ip], t) IN
    [ok |-> ~(Len(cleaned) >= MAX_REQUESTS_PER_WINDOW),
     ledger |-> [ledger EXCEPT ![client_ip] = cleaned]]

\* line 103: request_times[client_ip].append(now)
rate_record(ledger, client_ip, t) == [ledger EXCEPT ![client_ip] = Append(@, t)]

\* check_rate_limit(client_ip) at time t: the answer and the ledger after
check_rate_limit_records_rejected(ledger, client_ip, t) ==
    LET c == rate_check(ledger, client_ip, t) IN
    [ok |-> c.ok, ledger |-> rate_record(c.ledger, client_ip, t)]
check_rate_limit(ledger, client_ip, t) ==
    LET c == rate_check(ledger, client_ip, t) IN
    IF c.ok THEN [ok |-> TRUE, ledger |-> rate_record(c.ledger, client_ip, t)]
    ELSE c

NoCheck == [ip |-> "none", t |-> 0, ok |-> FALSE, status |-> 0]

TotalAccepted == Len(accepted["ip_a"]) + Len(accepted["ip_b"])

RateInit ==
    /\ request_times = [ip \in IPs |-> <<>>]
    /\ now = 0
    /\ ticks = 0
    /\ accepted = [ip \in IPs |-> <<>>]
    /\ last_check = NoCheck

\* analyze_content, lines 332-339: the rate-limit check that opens every request
RateCheck ==
    /\ TotalAccepted < MaxAccepted
    /\ \E ip \in IPs :
         LET r == check_rate_limit(request_times, ip, now) IN
         /\ request_times' = r.ledger
         /\ accepted' = IF r.ok THEN [accepted EXCEPT ![ip] = Append(@, now)] ELSE accepted
         /\ last_check' = [ip |-> ip, t |-> now, ok |-> r.ok,
                           status |-> IF r.ok THEN 0 ELSE 429]
    /\ UNCHANGED <<now, ticks>>
    /\ UNCHANGED <<client_vars, conc_vars, pipe_vars, clean_vars>>

\* the clock moves on
Tick ==
    /\ ticks < MaxTicks
    /\ now' = now + TickStep
    /\ ticks' = ticks + 1
    /\ UNCHANGED <<request_times, accepted, last_check>>
    /\ UNCHANGED <<client_vars, conc_vars, pipe_vars, clean_vars>>

-----------------------------------------------------------------------------
(* Coroutines of analyze_content on one event loop (SpecConc).  A coroutine   *)
(* runs without interruption from one suspension point to the next; the       *)
(* positions of the handler are                                               *)
(*   "check"    lines 328-339, check_rate_limit lines 92-100                  *)
(*   "record"   check_rate_limit line 103                                     *)
(*   "extract"  lines 341-362, suspended in await process_url_input /         *)
(*              process_image_input                                           *)
(*   "engine"   line 365, suspended in await run_fact_checking_engine         *)
(* and "idle" is a slot with no request.                                      *)

Slots == 1..MaxInFlight

\* the callers whose requests overlap: one caller racing against itself is the
\* case in which the coroutines share a ledger entry
ConcIPs == {"ip_a"}

\* the positions at which a coroutine gives the event loop to the others:
\* check_rate_limit is a plain `def` with no await in it
SuspendsInsideCheck == {"record", "extract", "engine"}
SuspendsAt == {"extract", "engine"}

IdleSlot == [pc |-> "idle", ip |-> "none", t |-> 0]

\* the handler's state while it runs: its own fields and the shared ledger
\* `choice` is what the awaited call at "extract" gives: "text" or "fail"
ExecPosition(st, choice) ==
    CASE st.pc = "check" ->
           LET c == rate_check(st.ledger, st.ip, st.now) IN
           [st EXCEPT !.ledger = c.ledger,
                      !.t = st.now,
                      !.pc = IF c.ok THEN "record" ELSE "idle",
                      !.check = [ip |-> st.ip, t |-> st.now, ok |-> c.ok,
                                 status |-> IF c.ok THEN 0 ELSE 429]]
      [] st.pc = "record" ->
           [st EXCEPT !.ledger = rate_record(st.ledger, st.ip, st.t),
                      !.acc = [st.acc EXCEPT ![st.ip] = Append(@, st.t)],
                      !.pc = "extract"]
      [] st.pc = "extract" ->
           [st EXCEPT !.pc = IF choice = "text" THEN "engine" ELSE "idle"]
      [] OTHER ->
           [st EXCEPT !.pc = "idle"]

\* run the coroutine until it suspends or returns
RECURSIVE RunToSuspension(_, _)
RunToSuspension(st, choice) ==
    LET nxt == ExecPosition(st, choice) IN
    IF nxt.pc \in SuspendsAt \cup {"idle"} THEN nxt ELSE RunToSuspension(nxt, choice)

ConcInit ==
    /\ RateInit
    /\ req = [r \in Slots |-> IdleSlot]

ConcIdle == req = [r \in Slots |-> IdleSlot]

\* a request arrives: its coroutine is created and waits for the event loop
Arrive(r) ==
    /\ req[r].pc = "idle"
    /\ TotalAccepted < MaxAccepted
    /\ \E ip \in ConcIPs : req' = [req EXCEPT ![r] = [pc |-> "check", ip |-> ip, t |-> 0]]
    /\ UNCHANGED <<rate_vars, client_vars, pipe_vars, clean_vars>>

\* the event loop resumes coroutine r
Resume(r) ==
    /\ req[r].pc # "idle"
    /\ \E choice \in {"text", "fail"} :
         LET st == [pc |-> req[r].pc, ip |-> req[r].ip, t |-> req[r].t, now |-> now,
                    ledger |-> request_times, acc |-> accepted, check |-> last_check]
             end == RunToSuspension(st, choice)
         IN
         /\ req' = [req EXCEPT ![r] = IF end.pc = "idle" THEN IdleSlot
                                      ELSE [pc |-> end.pc, ip |-> end.ip, t |-> end.t]]
         /\ request_times' = end.ledger
         /\ accepted' = end.acc
         /\ last_check' = end.check
    /\ UNCHANGED <<now, ticks, client_vars, pipe_vars, clean_vars>>

-----------------------------------------------------------------------------
(* Text constants of the program *)

UpperCase ==
    <<"A","B","C","D","E","F","G","H","I","J","K","L","M","N","O","P","Q","R","S","T","U",
      "V","W","X","Y","Z">>
LowerCase ==
    <<"a","b","c","d","e","f","g","h","i","j","k","l","m","n","o","p","q","r","s","t","u",
      "v","w","x","y","z">>

\* str.lower()
Lower(s) ==
    [i \in 1..Len(s) |->
        IF \E k \in 1..26 : UpperCase[k] = s[i]
        THEN LowerCase[CHOOSE k \in 1..26 : UpperCase[k] = s[i]]
        ELSE s[i]]

\* _create_fallback_analysis: false_indicators, true_indicators
false_indicators == {
    <<"f","l","a","t"," ","e","a","r","t","h">>,
    <<"e","a","r","t","h"," ","i","s"," ","f","l","a","t">>,
    <<"v","a","c","c","i","n","e","s"," ","c","a","u","s","e"," ","a","u","t","i","s","m">>,
    <<"m","i","c","r","o","c","h","i","p","s"," ","i","n"," ","v","a","c","c","i","n","e",
      "s">>,
    <<"5","g"," ","c","a","u","s","e","s"," ","c","a","n","c","e","r">>,
    <<"m","o","o","n"," ","l","a","n","d","i","n","g"," ","f","a","k","e">>,
    <<"c","h","e","m","t","r","a","i","l","s">>,
    <<"n","a","s","a"," ","h","i","d","i","n","g">>}
true_indicators == {
    <<"w","a","t","e","r"," ","b","o","i","l","s"," ","a","t"," ","1","0","0">>,
    <<"p","a","r","i","s"," ","c","a","p","i","t","a","l"," ","f","r","a","n","c","e">>,
    <<"e","a","r","t","h"," ","r","o","u","n","d">>,
    <<"v","a","c","c","i","n","e","s"," ","p","r","e","v","e","n","t"," ","d","i","s","e",
      "a","s","e">>}

\* run_fact_checking_engine: the words of the keyword fallback
contradicting_words == {
    <<"f","a","l","s","e">>,
    <<"i","n","c","o","r","r","e","c","t">>,
    <<"m","i","s","l","e","a","d","i","n","g">>,
    <<"c","o","n","t","r","a","d","i","c","t","e","d">>}
supporting_words == {
    <<"t","r","u","e">>,
    <<"a","c","c","u","r","a","t","e">>,
    <<"s","u","p","p","o","r","t","e","d">>,
    <<"v","e","r","i","f","i","e","d">>}

\* line 566
TooBriefClaim ==
    <<"T","h","e"," ","p","r","o","v","i","d","e","d"," ","c","o","n","t","e","n","t"," ",
      "m","a","y"," ","b","e"," ","t","o","o"," ","b","r","i","e","f"," ","o","r"," ",
      "l","a","c","k"," ","s","p","e","c","i","f","i","c"," ","f","a","c","t","u","a",
      "l"," ","c","l","a","i","m","s"," ","t","h","a","t"," ","c","a","n"," ","b","e",
      " ","v","e","r","i","f","i","e","d",".">>

\* extraction_prompt[:30]
ExtractionPromptHead ==
    <<"\n"," "," "," "," "," "," "," "," ","A","n","a","l","y","z","e"," ","t","h","e"," ",
      "f","o","l","l","o","w","i","n","g">>
\* fact_check_prompt[:30]
FactCheckPromptHead ==
    <<"\n"," "," "," "," "," "," "," "," "," "," "," "," ","P","e","r","f","o","r","m"," ",
      "a"," ","c","o","m","p","r","e","h">>
\* final_prompt[:30]
FinalPromptHead ==
    <<"\n"," "," "," "," ","A","n","a","l","y","z","e"," ","t","h","e"," ","f","o","l","l",
      "o","w","i","n","g"," ","f","a","c">>

-----------------------------------------------------------------------------
(* Inputs: source texts and the claims the generation service may list *)

TextParis ==
    <<"P","a","r","i","s"," ","i","s"," ","t","h","e"," ","c","a","p","i","t","a","l"," ",
      "o","f"," ","F","r","a","n","c","e","."," ","T","h","e"," ","e","a","r","t","h",
      " ","i","s"," ","f","l","a","t",".">>
TextVaccines ==
    <<"V","a","c","c","i","n","e","s"," ","c","a","u","s","e"," ","a","u","t","i","s","m",
      " ","i","n"," ","c","h","i","l","d","r","e","n","."," ","W","a","t","e","r"," ",
      "b","o","i","l","s"," ","a","t"," ","1","0","0"," ","d","e","g","r","e","e","s",
      " ","a","t"," ","s","e","a"," ","l","e","v","e","l",".">>
TextBrief ==
    <<"H","i"," ","t","h","e","r","e",".">>

SourceTexts == {TextParis, TextVaccines, TextBrief}

ClaimFlat ==
    <<"T","h","e"," ","e","a","r","t","h"," ","i","s"," ","f","l","a","t">>
ClaimParis ==
    <<"P","a","r","i","s"," ","i","s"," ","t","h","e"," ","c","a","p","i","t","a","l"," ",
      "o","f"," ","F","r","a","n","c","e">>
ClaimQuoted ==
    <<"H","e"," ","s","a","i","d"," ","\"","n","o","\""," ","t","o"," ","t","h","e"," ","n",
      "e","w"," ","p","l","a","n">>
ClaimWater ==
    <<"W","a","t","e","r"," ","b","o","i","l","s"," ","a","t"," ","1","0","0"," ","d","e",
      "g","r","e","e","s"," ","a","t"," ","s","e","a"," ","l","e","v","e","l">>
ClaimShort ==
    <<"T","o","o"," ","s","h","o","r","t">>

\* the i-th claim of a structured claim list
BaseClaims == <<ClaimFlat, ClaimParis, ClaimQuoted, ClaimWater>>
ServiceClaim(i) == BaseClaims[((i - 1) % Len(BaseClaims)) + 1]

-----------------------------------------------------------------------------
(* Texts returned by a generation call.                                       *)
(*   kind          what json.loads(text) gives: "malformed" (JSONDecodeError), *)
(*                 "object" (a dict), "array" (well-formed, not a dict)       *)
(*   neg, pos      text.lower() contains a contradicting / supporting word    *)
(*   clean_raises  clean_json_response(text) raises: the text is a fenced     *)
(*                 object whose key_evidence_points is not a list of strings  *)
(*   verdict, conf, rest_ok   fields read by the verification of a claim;     *)
(*                 rest_ok = FALSE: detailed_analysis, key_evidence_points or *)
(*                 credibility_assessment has a type the mapping fails on     *)
(*   claims        field read by the extraction                               *)
(*   overall_verdict, score, rest_ok   fields read by the synthesis           *)

AbsentField == [t |-> "absent", items |-> <<>>]
AbsentScore == [t |-> "absent", n |-> 0]

BlankResponse ==
    [kind |-> "malformed", neg |-> FALSE, pos |-> FALSE, clean_raises |-> FALSE,
     verdict |-> "absent", conf |-> "absent", rest_ok |-> TRUE,
     claims |-> AbsentField, overall_verdict |-> "absent", score |-> AbsentScore]

\* no AnalysisResponse yet; no branch of synthesize_final_report taken yet
NoReport == [score |-> 0, overallVerdict |-> "none", breakdown |-> <<>>]
NoPath == [gen |-> "none", branch |-> "none"]

MalformedTexts ==
    {[BlankResponse EXCEPT !.neg = n, !.pos = p, !.clean_raises = c] :
        n \in BOOLEAN, p \in BOOLEAN, c \in BOOLEAN}

ArrayText == [BlankResponse EXCEPT !.kind = "array"]

-----------------------------------------------------------------------------
(* _create_fallback_analysis *)

\* a prompt, as far as the Fallback Generator reads it: its first 30 characters
\* and the rest of its first line that starts with "Claim:" (<<>> when no line does)
FactCheckPrompt(claim) == [head |-> FactCheckPromptHead, claim_line |-> FirstLine(claim)]
ExtractionPrompt(text) == [head |-> ExtractionPromptHead, claim_line |-> <<>>]
FinalPrompt(breakdown) ==
    [head |-> FinalPromptHead,
     claim_line |-> IF breakdown = <<>> THEN <<>> ELSE FirstLine(breakdown[1].claim)]

\* characters that end or break a JSON string literal
JsonBreaking == {"\"", "\n"}

ContainsAny(s, words) == \E w \in words : Contains(s, w)

\* lines 186-236.  The f-string puts claim_text[:30] between double quotes
\* unescaped, so the text is a JSON object only if those characters allow it.
\* When no "Claim:" line is found claim_text is prompt[:200] + "...", of which
\* the model keeps the 30 characters that are written out.
create_fallback_analysis(prompt) ==
    LET stripped   == Strip(prompt.claim_line)
        claim_text == IF stripped = <<>> THEN prompt.head ELSE stripped
        claim_lower == Lower(claim_text)
        verdict == IF ContainsAny(claim_lower, false_indicators) THEN "Contradicted"
                   ELSE IF ContainsAny(claim_lower, true_indicators) THEN "Supported"
                   ELSE "InsufficientInfo"
        shown == Prefix(claim_text, 30)
        valid == \A i \in 1..Len(shown) : shown[i] \notin JsonBreaking
    IN  [BlankResponse EXCEPT
            !.kind = IF valid THEN "object" ELSE "malformed",
            !.verdict = verdict,
            !.conf = "num",
            !.neg = verdict = "Contradicted" \/ ContainsAny(Lower(shown), contradicting_words),
            !.pos = verdict = "Supported" \/ ContainsAny(Lower(shown), supporting_words)]

\* the attempts of one generation call, as the pipeline sees them
ClientBehaviours ==
    {<<"ok", "ok", "ok">>, <<"rate_limit", "error", "ok">>,
     <<"rate_limit", "rate_limit", "rate_limit">>, <<"error", "error", "error">>}

\* query_gemini_text(prompt) with the default max_retries: the text it returns
\* when its attempts end as `outs` and a successful attempt yields service_text
query_gemini_text(prompt, outs, service_text) ==
    LET gen == query_loop(0, DEFAULT_MAX_RETRIES, outs) IN
    [gen |-> gen,
     text |-> IF gen = "service" THEN service_text ELSE create_fallback_analysis(prompt)]

\* the answers of the service that matter to a call whose attempts end as
\* `outs`: none does when no attempt succeeds
Answers(outs, responses) ==
    IF query_loop(0, DEFAULT_MAX_RETRIES, outs) = "service" THEN responses
    ELSE {BlankResponse}

-----------------------------------------------------------------------------
(* run_fact_checking_engine, step 2: the verification of one claim *)

\* class ClaimAnalysis: verdict: Literal["Contradicted", "Supported", "InsufficientInfo"]
ClaimAnalysisVerdicts == {"Contradicted", "Supported", "InsufficientInfo"}

ClaimAnalysis(claim, verdict, explanation) ==
    [claim |-> claim, verdict |-> verdict, explanation |-> explanation]

\* what the generation service may answer to a verification prompt
VerifyObjects ==
    {[BlankResponse EXCEPT !.kind = "object", !.verdict = v, !.conf = c, !.rest_ok = r] :
        v \in {"Supported", "Contradicted", "InsufficientInfo", "Mixed", "absent",
               "Unverifiable", "null"},
        c \in {"num", "absent", "text"},
        r \in BOOLEAN}
VerifyResponses == MalformedTexts \cup {ArrayText} \cup VerifyObjects

\* lines 616-665: the records appended to verified_breakdown for `claim` when
\* the generation call returned `resp`.  explanation is "analysis" (built from
\* the parsed fields), "cleaned" (clean_json_response of the text) or "error"
\* ("Error during analysis: ...").
verify_claim_drops_on_error(claim, resp) ==
    CASE resp.kind = "object" ->
           IF resp.conf = "text" \/ ~resp.rest_ok THEN <<>>
           ELSE LET verdict == IF resp.verdict = "absent" THEN "InsufficientInfo"
                               ELSE resp.verdict
                IN  IF verdict \in ClaimAnalysisVerdicts
                    THEN <<ClaimAnalysis(claim, verdict, "analysis")>>
                    ELSE <<>>
      [] resp.kind = "array" -> <<>>
      [] OTHER ->
           IF resp.clean_raises THEN <<>>
           ELSE <<ClaimAnalysis(claim,
                                IF resp.neg THEN "Contradicted"
                                ELSE IF resp.pos THEN "Supported"
                                ELSE "InsufficientInfo",
                                "cleaned")>>
verify_claim_blames_claim(claim, resp) ==
    LET on_exception == <<ClaimAnalysis(claim, "Contradicted", "error")>> IN
    CASE resp.kind = "object" ->
           IF resp.conf = "text" \/ ~resp.rest_ok THEN on_exception
           ELSE LET verdict == IF resp.verdict = "absent" THEN "InsufficientInfo"
                               ELSE resp.verdict
                IN  IF verdict \in ClaimAnalysisVerdicts
                    THEN <<ClaimAnalysis(claim, verdict, "analysis")>>
                    ELSE on_exception
      [] resp.kind = "array" -> on_exception
      [] OTHER ->
           IF resp.clean_raises THEN on_exception
           ELSE <<ClaimAnalysis(claim,
                                IF resp.neg THEN "Contradicted"
                                ELSE IF resp.pos THEN "Supported"
                                ELSE "InsufficientInfo",
                                "cleaned")>>
verify_claim(claim, resp) ==
    LET on_exception == <<ClaimAnalysis(claim, "InsufficientInfo", "error")>> IN
    CASE resp.kind = "object" ->
           \* float(confidence_score), the slices and the join raise on ill-typed fields
           IF resp.conf = "text" \/ ~resp.rest_ok THEN on_exception
           ELSE LET verdict == IF resp.verdict = "absent" THEN "InsufficientInfo"
                               ELSE resp.verdict
                IN  \* ClaimAnalysis(...) raises a ValidationError on any other label
                    IF verdict \in ClaimAnalysisVerdicts
                    THEN <<ClaimAnalysis(claim, verdict, "analysis")>>
                    ELSE on_exception
      [] resp.kind = "array" -> on_exception      \* list.get: AttributeError
      [] OTHER ->
           IF resp.clean_raises THEN on_exception
           ELSE <<ClaimAnalysis(claim,
                                IF resp.neg THEN "Contradicted"
                                ELSE IF resp.pos THEN "Supported"
                                ELSE "InsufficientInfo",
                                "cleaned")>>

NoGen == [gen |-> "none", outs |-> <<>>, text |-> BlankResponse]

\* SpecVerify: one claim, one generation call, every response
VerifyInit ==
    /\ pc = "verify"
    /\ \E i \in 1..Len(BaseClaims) : claims = <<BaseClaims[i]>>
    /\ \E outs \in ClientBehaviours : \E r \in Answers(outs, VerifyResponses) :
         /\ gen_text = [gen |-> "pending", outs |-> outs, text |-> r]
    /\ service_answered = FALSE
    /\ input = [type |-> "none", fetch |-> "none", data |-> <<>>]
    /\ text_to_analyze = <<>>
    /\ idx = 0
    /\ verified_breakdown = <<>>
    /\ synth_path = NoPath
    /\ report = NoReport
    /\ status = 0

VerifyOne ==
    /\ pc = "verify"
    /\ gen_text.gen = "pending"
    /\ idx < Len(claims)
    /\ LET claim == claims[idx + 1]
           q == query_gemini_text(FactCheckPrompt(claim), gen_text.outs, gen_text.text)
       IN  /\ gen_text' = [gen_text EXCEPT !.gen = q.gen, !.text = q.text]
           /\ service_answered' = (service_answered \/ q.gen = "service")
           /\ verified_breakdown' = verified_breakdown \o verify_claim(claim, q.text)
    /\ idx' = idx + 1
    /\ pc' = "verified"
    /\ UNCHANGED <<input, text_to_analyze, claims, synth_path, report, status>>
    /\ UNCHANGED <<client_vars, rate_vars, conc_vars, clean_vars>>

\* SpecLoop: the loop `for i, claim in enumerate(claims)` over a list of claims,
\* the generation call of each turn on record
LoopClaims ==
    {[i \in 1..n |-> ServiceClaim(i + off)] : n \in 1..MaxClaims, off \in 0..1}

LoopInit ==
    /\ pc = "verify"
    /\ claims \in LoopClaims
    /\ gen_text = NoGen
    /\ service_answered = FALSE
    /\ input = [type |-> "none", fetch |-> "none", data |-> <<>>]
    /\ text_to_analyze = <<>>
    /\ idx = 0
    /\ verified_breakdown = <<>>
    /\ synth_path = NoPath
    /\ report = NoReport
    /\ status = 0

\* lines 579-665: one turn of the loop
VerifyTurn ==
    /\ pc = "verify"
    /\ idx < Len(claims)
    /\ \E outs \in ClientBehaviours : \E service_text \in Answers(outs, VerifyResponses) :
         LET claim == claims[idx + 1]
             q == query_gemini_text(FactCheckPrompt(claim), outs, service_text)
         IN  /\ verified_breakdown' = verified_breakdown \o verify_claim(claim, q.text)
             /\ gen_text' = [gen |-> q.gen, outs |-> outs, text |-> q.text]
             /\ service_answered' = (service_answered \/ q.gen = "service")
    /\ idx' = idx + 1
    /\ UNCHANGED <<pc, input, text_to_analyze, claims, synth_path, report, status>>
    /\ UNCHANGED <<client_vars, rate_vars, conc_vars, clean_vars>>

-----------------------------------------------------------------------------
(* run_fact_checking_engine, step 1: claim extraction *)

\* s.split(sep): the pieces between the occurrences of sep
Split(s, sep) ==
    LET seps == {i \in 1..Len(s) : s[i] = sep}
        n == Cardinality(seps)
        \* position of the k-th separator; 0 and Len(s) + 1 bracket the text
        at(k) == IF k = 0 THEN 0
                 ELSE IF k = n + 1 THEN Len(s) + 1
                 ELSE CHOOSE p \in seps : Cardinality({q \in seps : q < p}) = k - 1
    IN  [k \in 1..(n + 1) |-> SubSeq(s, at(k - 1) + 1, at(k) - 1)]

\* [s.strip() for s in text.split('.') if s.strip() and len(s.strip()) > 20]
Sentences(text) ==
    LET parts == Split(text, ".")
        stripped == [i \in 1..Len(parts) |-> Strip(parts[i])]
    IN  SelectSeq(stripped, LAMBDA x : x # <<>> /\ Len(x) > 20)

\* sentences[:3] if sentences else [text_to_analyze[:200]]
sentence_claims_no_default(text) == Prefix(Sentences(text), 3)
sentence_claims(text) ==
    IF Sentences(text) # <<>> THEN Prefix(Sentences(text), 3) ELSE <<Prefix(text, 200)>>

StrItem(x) == [t |-> "str", s |-> x]
NumItem == [t |-> "num", s |-> <<>>]
ListField(items) == [t |-> "list", items |-> items]

\* what the generation service may answer to the extraction prompt
ServiceClaimList(n) == [i \in 1..n |-> StrItem(ServiceClaim(i))]
ExtractionResponses ==
    {BlankResponse, ArrayText}
    \cup {[BlankResponse EXCEPT !.kind = "object", !.claims = f] :
            f \in {AbsentField, [t |-> "null", items |-> <<>>],
                   ListField(<<NumItem, StrItem(ClaimShort), StrItem(ClaimFlat)>>)}
                  \cup {ListField(ServiceClaimList(n)) : n \in 0..MaxClaims}}

\* lines 551-573: the claims, or raised = TRUE when an exception other than
\* JSONDecodeError leaves the inner try
extract_claims_trusts_list(text, resp) ==
    CASE resp.kind = "malformed" -> [raised |-> FALSE, claims |-> sentence_claims(text)]
      [] resp.kind = "array" -> [raised |-> TRUE, claims |-> <<>>]
      [] OTHER ->
           IF resp.claims.t \notin {"absent", "list"} THEN [raised |-> TRUE, claims |-> <<>>]
           ELSE LET kept == SelectSeq(resp.claims.items,
                                      LAMBDA c : c.t = "str" /\ Len(Strip(c.s)) > 10)
                IN  [raised |-> FALSE, claims |-> [i \in 1..Len(kept) |-> kept[i].s]]
extract_claims(text, resp) ==
    CASE resp.kind = "malformed" -> [raised |-> FALSE, claims |-> sentence_claims(text)]
      [] resp.kind = "array" -> [raised |-> TRUE, claims |-> <<>>]
      [] OTHER ->
           IF resp.claims.t \notin {"absent", "list"} THEN [raised |-> TRUE, claims |-> <<>>]
           ELSE LET kept == SelectSeq(resp.claims.items,
                                      LAMBDA c : c.t = "str" /\ Len(Strip(c.s)) > 10)
                    listed == [i \in 1..Len(kept) |-> kept[i].s]
                    split == sentence_claims(text)
                IN  [raised |-> FALSE,
                     claims |-> IF listed # <<>> THEN listed
                                ELSE IF Len(split) = 0 \/ (Len(split) = 1 /\ Len(split[1]) < 50)
                                     THEN <<TooBriefClaim>>
                                     ELSE split]

-----------------------------------------------------------------------------
(* synthesize_final_report *)

Count(breakdown, v) == Cardinality({i \in 1..Len(breakdown) : breakdown[i].verdict = v})

\* lines 742-769.  supported_count / total_claims >= 0.8 is evaluated in
\* floating point; for counts of this size it agrees with the exact comparison
\* 10 * supported_count >= 8 * total_claims.
fallback_score_strict(breakdown) ==
    LET supported_count == Count(breakdown, "Supported")
        contradicted_count == Count(breakdown, "Contradicted")
        total_claims == Len(breakdown)
    IN  IF total_claims = 0 THEN [score |-> 0, overall_verdict |-> "Insufficient Information"]
        ELSE IF 10 * contradicted_count > 8 * total_claims
             THEN [score |-> 15, overall_verdict |-> "False"]
        ELSE IF 10 * contradicted_count > 6 * total_claims
             THEN [score |-> 35, overall_verdict |-> "Mostly False"]
        ELSE IF 10 * supported_count > 8 * total_claims
             THEN [score |-> 85, overall_verdict |-> "True"]
        ELSE IF 10 * supported_count > 6 * total_claims
             THEN [score |-> 72, overall_verdict |-> "Mostly True"]
        ELSE [score |-> 50, overall_verdict |-> "Mixed"]
fallback_score(breakdown) ==
    LET supported_count == Count(breakdown, "Supported")
        contradicted_count == Count(breakdown, "Contradicted")
        total_claims == Len(breakdown)
    IN  IF total_claims = 0 THEN [score |-> 0, overall_verdict |-> "Insufficient Information"]
        ELSE IF 10 * contradicted_count >= 8 * total_claims
             THEN [score |-> 15, overall_verdict |-> "False"]
        ELSE IF 10 * contradicted_count >= 6 * total_claims
             THEN [score |-> 35, overall_verdict |-> "Mostly False"]
        ELSE IF 10 * supported_count >= 8 * total_claims
             THEN [score |-> 85, overall_verdict |-> "True"]
        ELSE IF 10 * supported_count >= 6 * total_claims
             THEN [score |-> 72, overall_verdict |-> "Mostly True"]
        ELSE [score |-> 50, overall_verdict |-> "Mixed"]

\* lines 777-801, the "emergency fallback calculation"
emergency_score_leans_low(breakdown) ==
    LET supported_count == Count(breakdown, "Supported")
        contradicted_count == Count(breakdown, "Contradicted")
        total_claims == Len(breakdown)
    IN  IF total_claims = 0 THEN [score |-> 50, overall_verdict |-> "Insufficient Information"]
        ELSE IF contradicted_count > supported_count
             THEN [score |-> 20, overall_verdict |-> "Mostly False"]
        ELSE IF supported_count > contradicted_count
             THEN [score |-> 70, overall_verdict |-> "Mostly True"]
        ELSE [score |-> 50, overall_verdict |-> "Mixed"]
emergency_score(breakdown) ==
    LET supported_count == Count(breakdown, "Supported")
        contradicted_count == Count(breakdown, "Contradicted")
        total_claims == Len(breakdown)
    IN  IF total_claims = 0 THEN [score |-> 50, overall_verdict |-> "Insufficient Information"]
        ELSE IF contradicted_count > supported_count
             THEN [score |-> 30, overall_verdict |-> "Mostly False"]
        ELSE IF supported_count > contradicted_count
             THEN [score |-> 70, overall_verdict |-> "Mostly True"]
        ELSE [score |-> 50, overall_verdict |-> "Mixed"]

\* what the generation service may answer to the synthesis prompt
NumScore(n) == [t |-> "num", n |-> n]
SynthObjects ==
    {[BlankResponse EXCEPT !.kind = "object", !.overall_verdict = v, !.score = sc] :
        v \in {"True", "absent", "Unverifiable", "null"},
        sc \in {AbsentScore, NumScore(85), NumScore(150), NumScore(-5),
                [t |-> "text", n |-> 0]}}
    \cup {[BlankResponse EXCEPT !.kind = "object", !.overall_verdict = "True",
                                !.score = NumScore(85), !.rest_ok = FALSE]}
SynthResponses ==
    {BlankResponse, [BlankResponse EXCEPT !.clean_raises = TRUE], ArrayText}
    \cup SynthObjects

\* lines 716-813 after the generation call returned q = [gen, text].
\*   branch   "primary", "parse_fallback" (except json.JSONDecodeError) or
\*            "exception_fallback" (except Exception)
\*   raised   AnalysisResponse(...) raised a ValidationError: overallVerdict: str
synthesize_final_report(breakdown, q) ==
    LET resp == q.text
        in_except ==
            [branch |-> "exception_fallback"] @@ emergency_score(breakdown)
        in_try ==
            CASE resp.kind = "object" ->
                   \* int(credibility_score) raises on text; the joins raise on
                   \* ill-typed key_findings
                   IF resp.score.t = "text" \/ ~resp.rest_ok THEN in_except
                   ELSE [branch |-> "primary",
                         score |-> IF resp.score.t = "absent" THEN 50 ELSE resp.score.n,
                         overall_verdict |-> IF resp.overall_verdict = "absent"
                                             THEN "Mixed" ELSE resp.overall_verdict]
              [] resp.kind = "array" -> in_except
              [] OTHER ->
                   \* line 771 calls clean_json_response when there are claims
                   IF breakdown # <<>> /\ resp.clean_raises THEN in_except
                   ELSE [branch |-> "parse_fallback"] @@ fallback_score(breakdown)
    IN  [raised |-> in_try.overall_verdict = "null",
         path |-> [gen |-> q.gen, branch |-> in_try.branch],
         report |-> [score |-> in_try.score,
                     overallVerdict |-> in_try.overall_verdict,
                     breakdown |-> breakdown]]

\* SpecSynth: synthesize_final_report on every breakdown of up to MaxBreakdown
\* records and every answer to the synthesis prompt
Breakdowns ==
    UNION {{[i \in 1..n |-> ClaimAnalysis(ServiceClaim(i + off), v[i], "analysis")] :
              v \in [1..n -> ClaimAnalysisVerdicts], off \in {0, 2}} : n \in 0..MaxBreakdown}

SynthInit ==
    /\ pc = "synth"
    /\ verified_breakdown \in Breakdowns
    /\ \E outs \in ClientBehaviours : \E r \in Answers(outs, SynthResponses) :
         /\ gen_text = [gen |-> "pending", outs |-> outs, text |-> r]
    /\ service_answered = FALSE
    /\ input = [type |-> "none", fetch |-> "none", data |-> <<>>]
    /\ text_to_analyze = <<>>
    /\ claims = [i \in 1..Len(verified_breakdown) |-> verified_breakdown[i].claim]
    /\ idx = Len(verified_breakdown)
    /\ synth_path = NoPath
    /\ report = NoReport
    /\ status = 0

SynthOne ==
    /\ pc = "synth"
    /\ gen_text.gen = "pending"
    /\ LET q == query_gemini_text(FinalPrompt(verified_breakdown), gen_text.outs, gen_text.text)
           r == synthesize_final_report(verified_breakdown, q)
       IN  /\ gen_text' = [gen_text EXCEPT !.gen = q.gen, !.text = q.text]
           /\ service_answered' = (service_answered \/ q.gen = "service")
           /\ synth_path' = r.path
           /\ report' = IF r.raised THEN NoReport ELSE r.report
           /\ pc' = IF r.raised THEN "raised" ELSE "returned"
    /\ UNCHANGED <<input, text_to_analyze, claims, idx, verified_breakdown, status>>
    /\ UNCHANGED <<client_vars, rate_vars, conc_vars, clean_vars>>

-----------------------------------------------------------------------------
(* analyze_content: one request, front to back (Spec) *)

\* the request and what acquiring its content gives.  fetch is the outcome of
\* requests.get / raise_for_status (url) or of base64.b64decode (image); data is
\* the text extracted when that succeeds.
FetchErrors == {"timeout", "connection_error", "http_error", "request_error"}
Inputs ==
    {[type |-> "text", fetch |-> "none", data |-> t] : t \in SourceTexts \cup {<<>>}}
    \cup {[type |-> "url", fetch |-> f, data |-> <<>>] : f \in FetchErrors \cup {"other_error"}}
    \cup {[type |-> "url", fetch |-> "ok", data |-> t] : t \in {TextParis, <<>>}}
    \cup {[type |-> "image", fetch |-> "decode_error", data |-> <<>>],
           [type |-> "image", fetch |-> "ok", data |-> TextVaccines]}

\* process_url_input, lines 458-467, and process_image_input, lines 516-517:
\* the status of the HTTPException raised, 0 when the text is returned
process_input(inp) ==
    CASE inp.type = "url" /\ inp.fetch \in FetchErrors -> 400
      [] inp.type = "url" /\ inp.fetch = "other_error" -> 500
      [] inp.type = "image" /\ inp.fetch = "decode_error" -> 500
      [] OTHER -> 0

\* lines 369-371: `except Exception as e` around the body of analyze_content
\* catches the HTTPException raised inside it, whatever its status, and raises
\* HTTPException(status_code=500)
analyze_except(raised_status) == 500

\* lines 673-675: the same in run_fact_checking_engine
engine_except(raised_status) == 500

\* lines 341-362: the status the request ends with before the engine is
\* called, 0 when the engine is called
acquire_text(inp) ==
    IF process_input(inp) # 0 THEN analyze_except(process_input(inp))
    ELSE IF inp.data = <<>> THEN analyze_except(400)
    ELSE 0

ClientIp == "ip_a"

\* a ledger entry full of requests made just now
FullEntry == [i \in 1..MAX_REQUESTS_PER_WINDOW |-> 0]

PipeInit ==
    /\ gen_text = NoGen
    /\ service_answered = FALSE
    /\ pc = "received"
    /\ input \in Inputs
    /\ text_to_analyze = <<>>
    /\ claims = <<>>
    /\ idx = 0
    /\ verified_breakdown = <<>>
    /\ synth_path = NoPath
    /\ report = NoReport
    /\ status = 0
    \* the ledger when the request arrives: empty; the caller's entry full of
    \* requests made just now; the same half a window and a whole window
    \* later, another caller having made a request at the same time
    /\ \E s \in {[ticks |-> 0, own |-> <<>>, other |-> <<>>],
                 [ticks |-> 0, own |-> FullEntry, other |-> <<>>],
                 [ticks |-> 1, own |-> FullEntry, other |-> <<0>>],
                 [ticks |-> 2, own |-> FullEntry, other |-> <<0>>]} :
         /\ ticks = s.ticks
         /\ now = s.ticks * TickStep
         /\ request_times = [ip \in IPs |-> IF ip = ClientIp THEN s.own ELSE s.other]
         /\ accepted = request_times
    /\ last_check = NoCheck

\* lines 328-362: the rate-limit check and the acquisition of the text
AnalyzeStart ==
    /\ pc = "received"
    /\ LET r == check_rate_limit(request_times, ClientIp, now)
           st == IF r.ok THEN acquire_text(input) ELSE 429
       IN  /\ request_times' = r.ledger
           /\ accepted' = IF r.ok THEN [accepted EXCEPT ![ClientIp] = Append(@, now)]
                          ELSE accepted
           /\ last_check' = [ip |-> ClientIp, t |-> now, ok |-> r.ok,
                             status |-> IF r.ok THEN 0 ELSE 429]
           /\ status' = st
           /\ pc' = IF st = 0 THEN "extract" ELSE "done"
           /\ text_to_analyze' = IF st = 0 THEN input.data ELSE <<>>
    /\ UNCHANGED <<now, ticks, gen_text, service_answered, input, claims, idx, verified_breakdown,
                   synth_path, report>>
    /\ UNCHANGED <<client_vars, conc_vars, clean_vars>>

\* lines 548-573: the extraction call returns and the claims are parsed
ExtractClaims ==
    /\ pc = "extract"
    /\ \E outs \in ClientBehaviours : \E service_text \in Answers(outs, ExtractionResponses) :
         LET q == query_gemini_text(ExtractionPrompt(text_to_analyze), outs, service_text)
             e == extract_claims(text_to_analyze, q.text)
         IN  /\ claims' = e.claims
             /\ service_answered' = (service_answered \/ q.gen = "service")
             /\ pc' = IF e.raised THEN "done" ELSE "verify"
             /\ status' = IF e.raised THEN analyze_except(engine_except(0)) ELSE 0
    /\ UNCHANGED <<rate_vars, gen_text, input, text_to_analyze, idx, verified_breakdown,
                   synth_path, report>>
    /\ UNCHANGED <<client_vars, conc_vars, clean_vars>>

\* lines 579-665: one turn of `for i, claim in enumerate(claims)`
VerifyNext ==
    /\ pc = "verify"
    /\ idx < Len(claims)
    /\ \E outs \in ClientBehaviours : \E service_text \in Answers(outs, VerifyResponses) :
         LET claim == claims[idx + 1]
             q == query_gemini_text(FactCheckPrompt(claim), outs, service_text)
         IN  /\ verified_breakdown' = verified_breakdown \o verify_claim(claim, q.text)
             /\ service_answered' = (service_answered \/ q.gen = "service")
    /\ idx' = idx + 1
    /\ UNCHANGED <<rate_vars, gen_text, pc, input, text_to_analyze, claims,
                   synth_path, report, status>>
    /\ UNCHANGED <<client_vars, conc_vars, clean_vars>>

\* lines 667-675 and 365-371: the loop is over; synthesis, then the answer
Synthesize ==
    /\ pc = "verify"
    /\ idx >= Len(claims)
    /\ \E outs \in ClientBehaviours : \E service_text \in Answers(outs, SynthResponses) :
         LET q == query_gemini_text(FinalPrompt(verified_breakdown), outs, service_text)
             r == synthesize_final_report(verified_breakdown, q)
         IN  /\ synth_path' = r.path
             /\ service_answered' = (service_answered \/ q.gen = "service")
             /\ report' = IF r.raised THEN NoReport ELSE r.report
             /\ status' = IF r.raised THEN analyze_except(engine_except(0)) ELSE 200
    /\ pc' = "done"
    /\ UNCHANGED <<rate_vars, gen_text, input, text_to_analyze, claims, idx,
                   verified_breakdown>>
    /\ UNCHANGED <<client_vars, conc_vars, clean_vars>>

-----------------------------------------------------------------------------
(* The extraction on its own *)

\* SpecExtract: the extraction of the claims of one text, on every response.
\* Besides the source texts: chatter without a sentence of more than 20
\* characters, shorter and longer than the 200 characters kept, and a text of
\* blanks only, which `if not extracted_text` (line 360) lets through.
Chatter(n) == [i \in 1..n |-> <<"N", "o", ".", " ">>[((i - 1) % 4) + 1]]
ExtractTexts == SourceTexts \cup {Chatter(60), Chatter(204), <<" ", " ", " ">>}

ExtractInit ==
    /\ pc = "extract"
    /\ text_to_analyze \in ExtractTexts
    /\ \E outs \in ClientBehaviours : \E r \in Answers(outs, ExtractionResponses) :
         /\ gen_text = [gen |-> "pending", outs |-> outs, text |-> r]
    /\ service_answered = FALSE
    /\ input = [type |-> "text", fetch |-> "none", data |-> text_to_analyze]
    /\ claims = <<>>
    /\ idx = 0
    /\ verified_breakdown = <<>>
    /\ synth_path = NoPath
    /\ report = NoReport
    /\ status = 0

\* lines 548-573, and 673-675 when the parsing raises
ExtractOne ==
    /\ pc = "extract"
    /\ gen_text.gen = "pending"
    /\ LET q == query_gemini_text(ExtractionPrompt(text_to_analyze), gen_text.outs,
                                  gen_text.text)
           e == extract_claims(text_to_analyze, q.text)
       IN  /\ gen_text' = [gen_text EXCEPT !.gen = q.gen, !.text = q.text]
           /\ service_answered' = (service_answered \/ q.gen = "service")
           /\ claims' = e.claims
           /\ pc' = IF e.raised THEN "raised" ELSE "verify"
           /\ status' = IF e.raised THEN engine_except(0) ELSE 0
    /\ UNCHANGED <<input, text_to_analyze, idx, verified_breakdown, synth_path, report>>
    /\ UNCHANGED <<client_vars, rate_vars, conc_vars, clean_vars>>

-----------------------------------------------------------------------------
(* clean_json_response *)

\* A JSON value: [t |-> "str", s |-> chars], a number with its literal
\* [t |-> "num", s |-> chars], [t |-> "list", items |-> values], the empty
\* nested object [t |-> "object"], [t |-> "null"].  A parsed object is
\* [t |-> "dict", pairs |-> <<key, value>> pairs in the order of the text];
\* [t |-> "malformed"] stands for a JSONDecodeError.
JsonNum(lit) == [t |-> "num", s |-> lit]

KeySummary ==
    <<"s","u","m","m","a","r","y">>
\* line 41
ReadableKeys ==
    <<KeySummary,
      <<"d","e","t","a","i","l","e","d","_","a","n","a","l","y","s","i","s">>,
      <<"a","n","a","l","y","s","i","s">>,
      <<"e","x","p","l","a","n","a","t","i","o","n">>,
      <<"d","e","s","c","r","i","p","t","i","o","n">>>>
KeyEvidencePoints ==
    <<"k","e","y","_","e","v","i","d","e","n","c","e","_","p","o","i","n","t","s">>
KeyCredibility ==
    <<"c","r","e","d","i","b","i","l","i","t","y","_","a","s","s","e","s","s","m","e",
          "n","t">>
EvidencePrefix ==
    <<"E","v","i","d","e","n","c","e",":"," ">>
CredibilityPrefix ==
    <<"C","r","e","d","i","b","i","l","i","t","y",":"," ">>
AnalysisCompleted ==
    <<"A","n","a","l","y","s","i","s"," ","c","o","m","p","l","e","t","e","d",".">>
\* the character U+0060, which a TLA+ string cannot hold
Backtick == "BACKTICK"
FenceJson == <<Backtick, Backtick, Backtick, "j", "s", "o", "n">>
Fence == <<Backtick, Backtick, Backtick>>

\* sep.join(parts)
RECURSIVE Join(_, _)
Join(sep, parts) ==
    IF parts = <<>> THEN <<>>
    ELSE IF Len(parts) = 1 THEN parts[1]
    ELSE parts[1] \o sep \o Join(sep, Tail(parts))

\* the text of a JSON value, as json.dumps writes it (strings without escapes)
RECURSIVE Dumps(_)
Dumps(v) ==
    CASE v.t = "str" -> <<"\"">> \o v.s \o <<"\"">>
      [] v.t = "num" -> v.s
      [] v.t = "null" -> <<"n", "u", "l", "l">>
      [] v.t = "object" -> <<"{", "}">>
      [] v.t = "list" ->
           <<"[">> \o Join(<<",", " ">>, [i \in 1..Len(v.items) |-> Dumps(v.items[i])])
                   \o <<"]">>
      [] v.t = "dict" ->
           <<"{">> \o Join(<<",", " ">>,
                           [i \in 1..Len(v.pairs) |->
                               <<"\"">> \o v.pairs[i][1] \o <<"\"", ":", " ">>
                                        \o Dumps(v.pairs[i][2])])
                   \o <<"}">>

\* the smallest element of a non-empty set of positions
First(S) == CHOOSE a \in S : \A b \in S : a <= b

\* re.sub(pat + r'\s*', '', s) for a literal pat
RECURSIVE RemoveWithSpace(_, _)
RemoveWithSpace(s, pat) ==
    LET starts == {i \in 1..(Len(s) - Len(pat) + 1) : SubSeq(s, i, i + Len(pat) - 1) = pat}
    IN  IF starts = {} THEN s
        ELSE LET i == First(starts)
                 after == i + Len(pat)
                 rest == {j \in after..Len(s) : s[j] \notin Whitespace}
                 next == IF rest = {} THEN Len(s) + 1 ELSE First(rest)
             IN  SubSeq(s, 1, i - 1) \o RemoveWithSpace(SubSeq(s, next, Len(s)), pat)

\* re.sub(r'\{[^}]*\}', '', s) with open = "{", close = "}"; the same for [ ]
RECURSIVE RemoveSpans(_, _, _)
RemoveSpans(s, open, close) ==
    LET starts == {i \in 1..Len(s) : s[i] = open /\ \E j \in (i + 1)..Len(s) : s[j] = close}
    IN  IF starts = {} THEN s
        ELSE LET i == First(starts)
                 j == First({k \in (i + 1)..Len(s) : s[k] = close})
             IN  SubSeq(s, 1, i - 1) \o RemoveSpans(SubSeq(s, j + 1, Len(s)), open, close)

\* re.sub(r'"[^"]*":', '', s)
RECURSIVE RemoveKeys(_)
RemoveKeys(s) ==
    LET quotes == {i \in 1..Len(s) : s[i] = "\""}
        closing(i) == First({k \in quotes : k > i})
        starts == {i \in quotes : /\ \E k \in quotes : k > i
                                  /\ closing(i) < Len(s)
                                  /\ s[closing(i) + 1] = ":"}
    IN  IF starts = {} THEN s
        ELSE LET i == First(starts)
             IN  SubSeq(s, 1, i - 1) \o RemoveKeys(SubSeq(s, closing(i) + 2, Len(s)))

\* re.sub(r'[:,\{\}\[\]"]', ' ', s)
BlankPunctuation(s) ==
    [i \in 1..Len(s) |-> IF s[i] \in {":", ",", "{", "}", "[", "]", "\""} THEN " " ELSE s[i]]

\* re.sub(r'\s+', ' ', s)
CollapseSpace(s) ==
    LET kept == {i \in 1..Len(s) :
                    s[i] \notin Whitespace \/ i = 1 \/ s[i - 1] \notin Whitespace}
        at(k) == CHOOSE p \in kept : Cardinality({q \in kept : q < p}) = k - 1
    IN  [k \in 1..Cardinality(kept) |-> IF s[at(k)] \in Whitespace THEN " " ELSE s[at(k)]]

\* lines 59-68
regex_clean(response_text) ==
    LET cleaned == Strip(CollapseSpace(BlankPunctuation(RemoveKeys(
                       RemoveSpans(RemoveSpans(response_text, "{", "}"), "[", "]")))))
    IN  IF cleaned # <<>> THEN cleaned ELSE AnalysisCompleted

\* bool(v)
Truthy(v) ==
    CASE v.t = "str" -> v.s # <<>>
      [] v.t = "num" -> v.s # <<"0">>
      [] v.t = "list" -> v.items # <<>>
      [] v.t = "dict" -> v.pairs # <<>>
      [] OTHER -> FALSE

\* str(v), for the strings and numbers the documents carry under the text keys
PyStr(v) == v.s

\* `key in parsed_json and parsed_json[key]`, and parsed_json[key]
HasTruthy(parsed_json, key) ==
    \E i \in 1..Len(parsed_json.pairs) :
        parsed_json.pairs[i][1] = key /\ Truthy(parsed_json.pairs[i][2])
Get(parsed_json, key) ==
    parsed_json.pairs[CHOOSE i \in 1..Len(parsed_json.pairs) : parsed_json.pairs[i][1] = key][2]

\* ', '.join(v) raises a TypeError unless v is a string or a list of strings
JoinRaises(v) ==
    \/ v.t = "num"
    \/ v.t = "list" /\ \E i \in 1..Len(v.items) : v.items[i].t # "str"
EvidenceParts(v) ==
    IF v.t = "str" THEN [i \in 1..Len(v.s) |-> <<v.s[i]>>]
    ELSE [i \in 1..Len(v.items) |-> v.items[i].s]

\* lines 24-68.  doc.text is the argument, doc.parsed what json.loads makes of
\* it once the fences are removed.  raised: an exception leaves the function.
clean_json_response(doc) ==
    LET response_text == RemoveWithSpace(RemoveWithSpace(doc.text, FenceJson), Fence)
        parsed_json == doc.parsed
        texts == SelectSeq(ReadableKeys, LAMBDA key : HasTruthy(parsed_json, key))
        readable == [i \in 1..Len(texts) |-> PyStr(Get(parsed_json, texts[i]))]
        has_evidence == HasTruthy(parsed_json, KeyEvidencePoints)
        evidence ==
            IF has_evidence
            THEN <<EvidencePrefix
                     \o Join(<<",", " ">>, EvidenceParts(Get(parsed_json, KeyEvidencePoints)))>>
            ELSE <<>>
        credibility ==
            IF HasTruthy(parsed_json, KeyCredibility)
            THEN <<CredibilityPrefix \o PyStr(Get(parsed_json, KeyCredibility))>>
            ELSE <<>>
        readable_parts == readable \o evidence \o credibility
    IN  IF parsed_json.t # "dict" THEN [raised |-> FALSE, text |-> regex_clean(response_text)]
        ELSE IF has_evidence /\ JoinRaises(Get(parsed_json, KeyEvidencePoints))
             THEN [raised |-> TRUE, text |-> <<>>]
        ELSE [raised |-> FALSE,
              text |-> IF readable_parts # <<>> THEN Join(<<".", " ">>, readable_parts)
                       ELSE response_text]

\* SpecClean: clean_json_response on documents of every shape
SummaryValues ==
    {StrItem(<<>>), JsonNum(<<"7">>), JsonNum(<<"0">>),
     StrItem(<<"A","l","l"," ","g","o","o","d">>),
     StrItem(<<"D","r","."," ","W","h","o"," ","i","s"," ","r","i","g","h","t","."," ","S","o",
          " ","f","a","r">>)}
EvidenceValues ==
    {ListField(<<>>), ListField(<<StrItem(<<"s", "e", "e", "n">>), StrItem(<<"o", "k">>)>>),
     ListField(<<StrItem(<<"s", "e", "e", "n">>), JsonNum(<<"5">>)>>),
     ListField(<<[t |-> "object"]>>), JsonNum(<<"5">>), StrItem(<<"a", "b">>),
     [t |-> "null"]}

\* the objects: each of the three keys present or not
Field(key, values) == {<<>>} \cup {<<<<key, v>>>> : v \in values}
CleanObjects ==
    {[t |-> "dict", pairs |-> a \o b \o c] :
        a \in Field(KeySummary, SummaryValues),
        b \in Field(KeyEvidencePoints, EvidenceValues),
        c \in Field(KeyCredibility, {StrItem(<<"H", "i", "g", "h">>)})}
     \cup {[t |-> "dict",
            pairs |-> <<<<ReadableKeys[2], StrItem(<<"f", "i", "n", "e">>)>>,
                        <<ReadableKeys[5], StrItem(<<"o", "k">>)>>>>]}

\* texts that are not JSON
ProseTexts ==
    {<<"V","e","r","d","i","c","t",":"," ","t","r","u","e"," ","{","\"","a","\"",":"," ",
          "1","}"," ","a","n","d"," ","[","x",","," ","y","]"," "," ","d","o","n","e">>,
     <<"{","\"","v","e","r","d","i","c","t","\"",":"," ","\"","S","u","p","p","o","r",
          "t","e","d","\"",","," ","\"","w","h","y","\"",":"," ","\"","s","e","e","n">>,
     <<"{"," ","}"," ","["," ","]">>,
     <<"T","h","e"," ","c","l","a","i","m"," ","i","s","\n"," ","a","c","c","u","r","a",
          "t","e",".">>}
CleanDocs ==
    {[text |-> Dumps(o), parsed |-> o] : o \in CleanObjects}
    \cup {[text |-> FenceJson \o <<"\n">> \o Dumps(o) \o <<"\n">> \o Fence, parsed |-> o] :
            o \in CleanObjects}
    \cup {[text |-> t, parsed |-> [t |-> "malformed"]] : t \in ProseTexts}
    \cup {[text |-> Dumps(v), parsed |-> v] :
            v \in {ListField(<<StrItem(<<"o", "k">>)>>), JsonNum(<<"7">>)}}

CleanIdle ==
    /\ clean_pc = "idle"
    /\ clean_doc = [text |-> <<>>, parsed |-> [t |-> "malformed"]]
    /\ clean_result = [raised |-> FALSE, text |-> <<>>]

CleanInit ==
    /\ clean_pc = "call"
    /\ clean_doc \in CleanDocs
    /\ clean_result = [raised |-> FALSE, text |-> <<>>]

\* one call of clean_json_response
CleanOne ==
    /\ clean_pc = "call"
    /\ clean_result' = clean_json_response(clean_doc)
    /\ clean_pc' = IF clean_result'.raised THEN "raised" ELSE "returned"
    /\ UNCHANGED clean_doc
    /\ UNCHANGED <<client_vars, rate_vars, conc_vars, pipe_vars>>

-----------------------------------------------------------------------------
(* Specifications *)

PipeIdle ==
    /\ gen_text = NoGen
    /\ service_answered = FALSE
    /\ pc = "idle"
    /\ input = [type |-> "none", fetch |-> "none", data |-> <<>>]
    /\ text_to_analyze = <<>>
    /\ claims = <<>>
    /\ idx = 0
    /\ verified_breakdown = <<>>
    /\ synth_path = NoPath
    /\ report = NoReport
    /\ status = 0

RateIdle == RateInit

InitClient == CleanIdle /\ ClientInit /\ RateIdle /\ ConcIdle /\ PipeIdle
NextClient ==
    \/ ClientAttempt
    \/ ClientSleepDone
    \/ ClientLoopExit
SpecClient == InitClient /\ [][NextClient]_vars

InitRate == CleanIdle /\ ClientIdle /\ RateInit /\ ConcIdle /\ PipeIdle
NextRate ==
    \/ RateCheck
    \/ Tick
SpecRate == InitRate /\ [][NextRate]_vars

InitConc == CleanIdle /\ ClientIdle /\ ConcInit /\ PipeIdle
NextConc ==
    \/ \E r \in Slots : Arrive(r)
    \/ \E r \in Slots : Resume(r)
    \/ Tick
SpecConc == InitConc /\ [][NextConc]_vars

InitVerify == CleanIdle /\ ClientIdle /\ RateIdle /\ ConcIdle /\ VerifyInit
NextVerify == VerifyOne
SpecVerify == InitVerify /\ [][NextVerify]_vars

InitExtract == CleanIdle /\ ClientIdle /\ RateIdle /\ ConcIdle /\ ExtractInit
SpecExtract == InitExtract /\ [][ExtractOne]_vars

InitLoop == CleanIdle /\ ClientIdle /\ RateIdle /\ ConcIdle /\ LoopInit
SpecLoop == InitLoop /\ [][VerifyTurn]_vars

InitSynth == CleanIdle /\ ClientIdle /\ RateIdle /\ ConcIdle /\ SynthInit
NextSynth == SynthOne
SpecSynth == InitSynth /\ [][NextSynth]_vars

InitClean == ClientIdle /\ RateIdle /\ ConcIdle /\ PipeIdle /\ CleanInit
SpecClean == InitClean /\ [][CleanOne]_vars

Init == CleanIdle /\ ClientIdle /\ ConcIdle /\ PipeInit
Next ==
    \/ AnalyzeStart
    \/ ExtractClaims
    \/ VerifyNext
    \/ Synthesize
Spec == Init /\ [][Next]_vars

-----------------------------------------------------------------------------
(* Claims *)

\* ---- C1 ----
\* C1: every report returned by an analysis has a score in 0..100, whatever the
\* generation service answers to the synthesis request and whichever branch of
\* the synthesis built the report.
C1_ScoreInRange ==
    status = 200 => report.score \in 0..100

\* ---- C2 ----
\* C2: for every list of extracted claims and every outcome of each verification
\* the breakdown has exactly one record per claim verified so far, the i-th
\* record carries the i-th claim, and the breakdown passed to synthesis and
\* returned in the report has one record per extracted claim in extraction order.
C2_OneVerdictPerClaim ==
    /\ Len(verified_breakdown) = idx
    /\ idx <= Len(claims)
    /\ \A i \in 1..Len(verified_breakdown) : verified_breakdown[i].claim = claims[i]
    /\ synth_path # NoPath => Len(verified_breakdown) = Len(claims)
    /\ status = 200 =>
          /\ Len(report.breakdown) = Len(claims)
          /\ \A i \in 1..Len(claims) : report.breakdown[i].claim = claims[i]

\* a report for three claims whose verifications ended in the three ways: a
\* parsed response, an unparseable response, an exception
C2_Witness ==
    /\ status = 200
    /\ Len(claims) = 3
    /\ Len(report.breakdown) = 3
    /\ report.breakdown[1].explanation = "analysis"
    /\ report.breakdown[2].explanation = "cleaned"
    /\ report.breakdown[3].explanation = "error"

\* ---- C5, C6 ----
\* the verdict-ratio table of the fallback path, as the specification states it
RatioTable(breakdown) ==
    LET total == Len(breakdown)
        contradicted == Count(breakdown, "Contradicted")
        supported == Count(breakdown, "Supported")
    IN  IF total = 0 THEN <<0, "Insufficient Information">>
        ELSE IF 5 * contradicted >= 4 * total THEN <<15, "False">>
        ELSE IF 5 * contradicted >= 3 * total THEN <<35, "Mostly False">>
        ELSE IF 5 * supported >= 4 * total THEN <<85, "True">>
        ELSE IF 5 * supported >= 3 * total THEN <<72, "Mostly True">>
        ELSE <<50, "Mixed">>

Verdicts(breakdown) == [i \in 1..Len(breakdown) |-> breakdown[i].verdict]

\* C5: when every generation attempt of the synthesis request fails, score and
\* overall verdict of the report are the ones the verdict-ratio table gives for
\* the breakdown (all Contradicted: 15 / False).
C5_UnavailableServiceUsesRatios ==
    (status = 200 /\ synth_path.gen = "fallback") =>
        <<report.score, report.overallVerdict>> = RatioTable(report.breakdown)

\* the parse-failure fallback has built the report of a non-empty breakdown
OnParseFallback ==
    pc = "returned" /\ synth_path.branch = "parse_fallback" /\ verified_breakdown # <<>>

\* the table, in its order, with the boundaries 4 of 5 and 3 of 5 on the >= side
\* and five Contradicted giving 15 / False
FollowsRatioTable ==
    LET got == <<report.score, report.overallVerdict>>
        n == Len(verified_breakdown)
        c == Count(verified_breakdown, "Contradicted")
        sup == Count(verified_breakdown, "Supported")
    IN  /\ got = RatioTable(verified_breakdown)
        /\ (n = 5 /\ c = 5) => got = <<15, "False">>
        /\ (n = 5 /\ c = 4) => got = <<15, "False">>
        /\ (n = 5 /\ c = 3) => got = <<35, "Mostly False">>
        /\ (n = 5 /\ sup = 4) => got = <<85, "True">>
        /\ (n = 5 /\ sup = 3 /\ c < 3) => got = <<72, "Mostly True">>

ThreeSupportedOneContradicted ==
    Verdicts(verified_breakdown) = <<"Supported", "Supported", "Supported", "Contradicted">>

\* C6 as stated: on the parse-failure fallback with a non-empty breakdown score
\* and verdict follow the table, and [Supported, Supported, Supported,
\* Contradicted] gives 50 / Mixed.
C6_AsStated ==
    OnParseFallback =>
        /\ FollowsRatioTable
        /\ ThreeSupportedOneContradicted =>
              <<report.score, report.overallVerdict>> = <<50, "Mixed">>

\* C6 as amended: on the parse-failure fallback with a non-empty breakdown score
\* and verdict follow the table, and [Supported, Supported, Supported,
\* Contradicted] (supported ratio 0.75 >= 0.6) gives 72 / Mostly True.
C6_ParseFallbackTable ==
    OnParseFallback =>
        /\ FollowsRatioTable
        /\ ThreeSupportedOneContradicted =>
              <<report.score, report.overallVerdict>> = <<72, "Mostly True">>

\* the breakdown of the example on the parse-failure fallback
C6_Witness ==
    /\ OnParseFallback
    /\ ThreeSupportedOneContradicted
    /\ report.score = 72

\* ---- C7 ----
ExtractionFailed ==
    \/ input.type = "url" /\ input.fetch \in FetchErrors
    \/ process_input(input) = 0 /\ input.data = <<>>

\* C7: when content extraction fails or yields no text the endpoint answers 400;
\* 500 is returned only for internal pipeline failures and 429 only for a
\* rate-limit rejection.
C7_ExtractionFailureIs400 ==
    pc = "done" =>
        /\ (last_check.ok /\ ExtractionFailed) => status = 400
        /\ status = 500 => ~ExtractionFailed
        /\ status = 429 <=> ~last_check.ok

\* ---- C3 ----
\* C3: for every max_retries >= 0 and every sequence of attempt outcomes the
\* client makes at most max_retries attempts, never raises, makes no attempt
\* after a successful one, and returns the text of the first successful attempt
\* or the Fallback Generator's text.
C3_ClientNeverRaises ==
    /\ Len(c_log) <= c_max
    /\ c_pc # "raised"
    /\ \A i \in 1..Len(c_log) : c_log[i].outcome = "ok" => i = Len(c_log)
    /\ c_pc = "returned" =>
          \/ /\ c_result = "service"
             /\ c_log # <<>>
             /\ c_log[Len(c_log)].outcome = "ok"
          \/ /\ c_result = "fallback"
             /\ \A i \in 1..Len(c_log) : c_log[i].outcome # "ok"
    /\ (c_log # <<>> /\ c_log[Len(c_log)].outcome = "ok") =>
          (c_pc = "returned" /\ c_result = "service")

\* success on the third attempt, after a rate-limit error and another error
C3_Witness ==
    /\ c_pc = "returned"
    /\ c_result = "service"
    /\ Len(c_log) = 3
    /\ c_log[1].outcome = "rate_limit"
    /\ c_log[2].outcome = "error"

\* ---- C4 ----
\* the documented schedule "2, 4, 8 seconds", written out
BackoffSchedule == <<2, 4, 8, 16, 32, 64>>

\* C4: a rate-limited attempt k (0-based) that is not the last is followed by a
\* wait of 2^k * 2 seconds; with max_retries = 3 and every attempt rate-limited
\* there are exactly 3 attempts, waits of 2 s and 4 s, no wait after the third,
\* and the Fallback Generator's output is returned.
C4_BackoffSchedule ==
    /\ \A i \in 1..Len(c_log) :
          (c_log[i].outcome = "rate_limit" /\ c_log[i].attempt < c_max - 1) =>
             /\ c_log[i].wait = BackoffSchedule[c_log[i].attempt + 1]
             /\ (c_attempt = c_log[i].attempt => c_pc = "sleep")
             /\ c_attempt >= c_log[i].attempt
    /\ \A i \in 1..Len(c_log) : c_log[i].attempt = i - 1
    /\ ( /\ c_max = 3
         /\ c_pc = "returned"
         /\ \A i \in 1..Len(c_log) : c_log[i].outcome = "rate_limit" ) =>
          /\ Len(c_log) = 3
          /\ <<c_log[1].wait, c_log[2].wait, c_log[3].wait>> = <<2, 4, 0>>
          /\ c_result = "fallback"

C4_Witness ==
    /\ c_max = 3
    /\ c_pc = "returned"
    /\ Len(c_log) = 3
    /\ \A i \in 1..3 : c_log[i].outcome = "rate_limit"

\* ---- C8 ----
\* the accepted requests of a caller other than the one the last check accepted
EarlierAccepted ==
    LET a == accepted[last_check.ip] IN
    IF last_check.ok THEN SubSeq(a, 1, Len(a) - 1) ELSE a

\* no more than MAX_REQUESTS_PER_WINDOW accepted requests of one caller in any
\* window of RATE_LIMIT_WINDOW seconds (it is enough to look at the windows that
\* start at an accepted request)
SlidingWindowHolds ==
    \A ip \in IPs : \A i \in 1..Len(accepted[ip]) :
        Cardinality({j \in 1..Len(accepted[ip]) :
                        /\ accepted[ip][j] >= accepted[ip][i]
                        /\ accepted[ip][j] - accepted[ip][i] < 60}) <= 10

\* C8: a request arriving at time t is accepted iff fewer than 10 of the caller's
\* earlier accepted requests are less than 60 seconds older than t; no caller has
\* more than 10 accepted requests in a 60-second window; a rejected request gets
\* status 429.
C8_SlidingWindowLimit ==
    /\ last_check.ip # "none" =>
          /\ last_check.ok <=>
                Cardinality({j \in 1..Len(EarlierAccepted) :
                                last_check.t - EarlierAccepted[j] < 60}) < 10
          /\ last_check.ok <=> last_check.status # 429
    /\ SlidingWindowHolds

\* the 11th request of a caller inside one window is rejected
C8_Witness ==
    /\ last_check.ip = "ip_a"
    /\ ~last_check.ok
    /\ last_check.status = 429
    /\ Len(accepted["ip_a"]) = 10
    /\ Len(accepted["ip_b"]) = 1

\* ---- C9 ----
Occurrences(times, x) == Cardinality({i \in 1..Len(times) : times[i] = x})

\* C9: with coroutines interleaved at their suspension points no recorded
\* timestamp is lost (every accepted request still inside the window is in the
\* ledger, once) and no caller gets more than 10 requests accepted in one window.
C9_CheckIsAtomic ==
    /\ \A ip \in IPs : \A i \in 1..Len(accepted[ip]) :
          now - accepted[ip][i] < 60 =>
             Occurrences(request_times[ip], accepted[ip][i])
               = Occurrences(accepted[ip], accepted[ip][i])
    /\ SlidingWindowHolds

\* one request is suspended in the engine, another waits to be checked, and the
\* caller has used up the window
C9_Witness ==
    /\ req[1].pc = "engine"
    /\ req[2].pc = "check"
    /\ Len(request_times["ip_a"]) = 10
    /\ ~last_check.ok
    /\ last_check.ip = "ip_a"

\* ---- C10 ----
FourVerdicts == {"Supported", "Contradicted", "InsufficientInfo", "Mixed"}

\* C10: when the verification response parses as a structured record (with
\* fields of the types the prompt asks for) whose verdict is one of Supported,
\* Contradicted, InsufficientInfo, Mixed, the claim verdict carries that label
\* (Mixed stays Mixed); when the verdict field is absent the label is
\* InsufficientInfo.
C10_VerdictLabelKept ==
    (pc = "verified" /\ gen_text.text.kind = "object") =>
        /\ (gen_text.text.verdict \in FourVerdicts
              /\ gen_text.text.conf # "text" /\ gen_text.text.rest_ok) =>
              verified_breakdown[1].verdict = gen_text.text.verdict
        /\ gen_text.text.verdict = "absent" =>
              verified_breakdown[1].verdict = "InsufficientInfo"

\* ---- C11 ----
\* the responses on which the body of the try at line 616 raises: a well-formed
\* text that is not an object (.get fails), an object with a confidence that
\* float() rejects or a field the slices and joins fail on, a verdict label
\* that ClaimAnalysis rejects, an unparseable text on which the sanitizer fails
VerificationRaises(resp) ==
    \/ resp.kind = "array"
    \/ /\ resp.kind = "object"
       /\ \/ resp.conf = "text"
          \/ ~resp.rest_ok
          \/ resp.verdict \notin {"Supported", "Contradicted", "InsufficientInfo", "absent"}
    \/ resp.kind = "malformed" /\ resp.clean_raises

\* C11: an exception raised while verifying a claim becomes the record of that
\* claim, with verdict InsufficientInfo and an explanation naming the failure;
\* it does not leave the loop (no error status, one record per turn) and the
\* loop goes on with the next claim.
C11_ExceptionBecomesVerdict ==
    /\ pc = "verify" /\ status = 0
    /\ Len(verified_breakdown) = idx
    /\ (idx > 0 /\ VerificationRaises(gen_text.text)) =>
          verified_breakdown[idx] = ClaimAnalysis(claims[idx], "InsufficientInfo", "error")
    /\ \A i \in 1..Len(verified_breakdown) :
          verified_breakdown[i].explanation = "error" =>
              /\ verified_breakdown[i].verdict = "InsufficientInfo"
              /\ verified_breakdown[i].claim = claims[i]

\* the first verification raised (the label Mixed is rejected), the loop went
\* on and the second claim got its verdict from a parsed response
C11_Witness ==
    /\ idx = 2
    /\ verified_breakdown[1].explanation = "error"
    /\ verified_breakdown[1].verdict = "InsufficientInfo"
    /\ verified_breakdown[2].explanation = "analysis"
    /\ verified_breakdown[2].verdict = "Supported"
    /\ gen_text.text.verdict = "Supported"

\* ---- C12 ----
\* the period-delimited segments of text whose trimmed length exceeds 20
LongSegments(text) ==
    {k \in 1..Len(Split(text, ".")) : Len(Strip(Split(text, ".")[k])) > 20}

\* C12: for a non-empty source text the extractor never returns an empty claim
\* list; on a malformed response and a text without a segment of trimmed length
\* over 20 it returns exactly one claim: the first 200 characters of the text,
\* or the fixed too-brief message.
C12_NeverEmptyClaimList ==
    (pc = "verify" /\ text_to_analyze # <<>>) =>
        /\ claims # <<>>
        /\ (gen_text.text.kind = "malformed" /\ LongSegments(text_to_analyze) = {}) =>
              /\ Len(claims) = 1
              /\ claims[1] \in {Prefix(text_to_analyze, 200), TooBriefClaim}

\* a malformed response, a text of more than 200 characters without a long
\* segment: the one claim is its first 200 characters
C12_Witness ==
    /\ pc = "verify"
    /\ gen_text.text.kind = "malformed"
    /\ LongSegments(text_to_analyze) = {}
    /\ Len(text_to_analyze) > 200
    /\ Len(claims) = 1
    /\ Len(claims[1]) = 200

\* ---- C13 ----
\* C13: whatever text the extraction request returns, the extractor ends with
\* a list of claims and the request goes on to verification and synthesis: an
\* analysis that got its text does not end before the synthesis.
C13_ExtractionFallsBackLocally ==
    (pc = "done" /\ text_to_analyze # <<>>) =>
        /\ claims # <<>>
        /\ synth_path # NoPath

\* ---- C14 ----
\* C14: when no generation call of the request is answered by the service, the
\* analysis of "Paris is the capital of France. The earth is flat." returns a
\* report with 2 claims, each with a valid verdict label, and a score in 0..100.
C14_OutageReportHasTwoClaims ==
    (pc = "done" /\ text_to_analyze = TextParis /\ ~service_answered) =>
        /\ status = 200
        /\ Len(report.breakdown) = 2
        /\ \A i \in 1..Len(report.breakdown) : report.breakdown[i].verdict \in FourVerdicts
        /\ report.score \in 0..100

\* ---- C15 ----
\* C15: the text the Fallback Generator returns for the verification prompt of
\* a claim parses as a structured record in the verification, and the record
\* of the claim carries the verdict the Fallback Generator chose, whatever the
\* first 30 characters of the claim are.
C15_FallbackTextParses ==
    (pc = "verified" /\ gen_text.gen = "fallback") =>
        /\ gen_text.text.kind = "object"
        /\ verified_breakdown[1].explanation = "analysis"
        /\ verified_breakdown[1].verdict = gen_text.text.verdict

\* ---- C16 ----
OverallVerdicts ==
    {"True", "Mostly True", "Mixed", "Mostly False", "False", "Insufficient Information"}

\* C16: the overall verdict of every returned report is one of the six labels,
\* whatever overall_verdict the service puts in a well-formed synthesis response.
C16_OverallVerdictIsLabel ==
    status = 200 => report.overallVerdict \in OverallVerdicts

\* ---- C17 ----
\* C17: an analysis that has produced at least one claim verdict ends with a
\* well-formed report that contains the breakdown produced, also when an error
\* occurs afterwards.
C17_ReportKeptAfterError ==
    (pc = "done" /\ verified_breakdown # <<>>) =>
        /\ status = 200
        /\ report.breakdown = verified_breakdown
        /\ report.overallVerdict # "none"

\* ---- C20 ----
\* C20: for every non-empty breakdown the fallback taken on an exception gives
\* the same score and overall verdict as the fallback taken on a parse failure.
C20_FallbacksAgree ==
    (pc = "returned" /\ synth_path.branch = "exception_fallback"
        /\ verified_breakdown # <<>>) =>
        /\ report.score = fallback_score(verified_breakdown).score
        /\ report.overallVerdict = fallback_score(verified_breakdown).overall_verdict

\* ---- C18 ----
\* C18: for every input text the sanitizer returns a string and lets no
\* exception escape, also for a structured object whose evidence list is not
\* a list of strings.
C18_SanitizerNeverRaises ==
    clean_pc \in {"returned", "raised"} =>
        /\ clean_pc = "returned"
        /\ ~clean_result.raised

\* ---- C19 ----
\* the document is a structured object with the one key "summary", a string
SummaryOnly(doc) ==
    /\ doc.parsed.t = "dict"
    /\ Len(doc.parsed.pairs) = 1
    /\ doc.parsed.pairs[1][1] = KeySummary
    /\ doc.parsed.pairs[1][2].t = "str"

\* C19: for a structured object with only a "summary" key the sanitizer
\* returns exactly the value of that key, for every value, the empty string
\* included.
C19_SummaryRoundTrip ==
    (clean_pc \in {"returned", "raised"} /\ SummaryOnly(clean_doc)) =>
        /\ clean_pc = "returned"
        /\ clean_result.text = clean_doc.parsed.pairs[1][2].s

\* ---- C21 ----
\* C21: every claim handed to the verifier is non-empty after trimming and
\* longer than 10 characters, whichever extraction path produced it and
\* whatever the non-empty source text, a very short or blank one included.
C21_ClaimsAreSubstantial ==
    (pc = "verify" /\ text_to_analyze # <<>>) =>
        \A i \in 1..Len(claims) :
            /\ Strip(claims[i]) # <<>>
            /\ Len(Strip(claims[i])) > 10

\* ---- C22 ----
\* the response parsed to an object whose claims list keeps no entry
EmptyFilteredList ==
    /\ gen_text.text.kind = "object"
    /\ gen_text.text.claims.t \in {"absent", "list"}
    /\ \A i \in 1..Len(gen_text.text.claims.items) :
          LET c == gen_text.text.claims.items[i]
          IN  ~(c.t = "str" /\ Len(Strip(c.s)) > 10)

\* the first three segments of LongSegments(text), trimmed, in source order
FirstLongSegments(text) ==
    LET ks == LongSegments(text)
        kth(i) == CHOOSE k \in ks : Cardinality({j \in ks : j < k}) = i - 1
    IN  [i \in 1..Min(3, Cardinality(ks)) |-> Strip(Split(text, ".")[kth(i)])]

\* C22: when the filtered claim list is empty, and when the response does not
\* parse, the extractor returns the period-delimited segments of trimmed
\* length over 20, trimmed, in source order, at most three of them, for any
\* number of such segments from one upward and any length above 20; the two
\* paths return the same claims for the same text.
C22_LongSegmentsReturned ==
    (/\ pc = "verify"
     /\ gen_text.text.kind = "malformed" \/ EmptyFilteredList
     /\ LongSegments(text_to_analyze) # {}) =>
        claims = FirstLongSegments(text_to_analyze)

\* ---- C23 ----
\* C23: a failed attempt whose error is not a rate-limit error is followed by
\* a wait of exactly 1 second and a retry, unless it was the last attempt: then
\* the Fallback Generator's output is returned without waiting.  In a sequence
\* that mixes the two error classes the wait after a failed attempt that is not
\* the last depends only on its class and its 0-based index k: 1 s for another
\* error, 2^k * 2 s for a rate-limit error, however many rate-limit errors
\* came before.
C23_FlatWaitForOtherErrors ==
    \A i \in 1..Len(c_log) :
        LET k == c_log[i].attempt IN
        /\ k = i - 1
        /\ (c_log[i].outcome = "error" /\ k < c_max - 1) =>
              /\ c_log[i].wait = 1
              /\ IF i = Len(c_log)
                 THEN \/ c_pc = "sleep" /\ c_attempt = k
                      \/ c_pc = "try" /\ c_attempt = k + 1
                 ELSE c_log[i + 1].attempt = k + 1
        /\ (c_log[i].outcome = "error" /\ k = c_max - 1) =>
              /\ c_log[i].wait = 0
              /\ i = Len(c_log)
              /\ c_pc = "returned"
              /\ c_result = "fallback"
        /\ (c_log[i].outcome = "rate_limit" /\ k < c_max - 1) =>
              c_log[i].wait = BackoffSchedule[k + 1]

\* three attempts that mix the classes: another error (wait 1 s), a rate-limit
\* error at index 1 (wait 4 s), another error on the last attempt (no wait)
C23_Witness ==
    /\ c_max = 3
    /\ c_pc = "returned"
    /\ c_result = "fallback"
    /\ Len(c_log) = 3
    /\ <<c_log[1].outcome, c_log[2].outcome, c_log[3].outcome>>
          = <<"error", "rate_limit", "error">>
    /\ <<c_log[1].wait, c_log[2].wait, c_log[3].wait>> = <<1, 4, 0>>

\* ---- C24 ----
\* C24: in every analysis that reaches synthesis through the pipeline the
\* breakdown is non-empty: the verification loop starts from at least one
\* claim, the synthesizer is never called on an empty breakdown, so neither
\* fallback takes its zero-claims branch, and every returned report carries at
\* least one verdict.
C24_SynthesisBreakdownNonEmpty ==
    /\ pc = "verify" => claims # <<>>
    /\ synth_path # NoPath =>
          /\ verified_breakdown # <<>>
          /\ Len(verified_breakdown) = Len(claims)
    /\ status = 200 => report.breakdown # <<>>

\* the shortest text, one claim, and the synthesis ends in the fallback of the
\* exception handler with a breakdown of one verdict
C24_Witness ==
    /\ pc = "done"
    /\ status = 200
    /\ input.data = TextBrief
    /\ synth_path.branch = "exception_fallback"
    /\ Len(verified_breakdown) = 1
    /\ report.breakdown = verified_breakdown

\* ---- C25 ----
\* the scoring guideline of the synthesis prompt: the band of each verdict
GuidelineBand ==
    [v \in {"True", "Mostly True", "Mixed", "Mostly False", "False"} |->
        CASE v = "True" -> 85..100
          [] v = "Mostly True" -> 70..84
          [] v = "Mixed" -> 50..69
          [] v = "Mostly False" -> 25..49
          [] OTHER -> 0..24]

\* score and verdict of the report were computed locally: one of the two
\* fallbacks, or the defaults of the primary path when the response names
\* neither
ComputedLocally ==
    \/ synth_path.branch \in {"parse_fallback", "exception_fallback"}
    \/ /\ synth_path.branch = "primary"
       /\ gen_text.text.overall_verdict = "absent"
       /\ gen_text.text.score.t = "absent"

\* C25: on every synthesis path that does not take score and verdict from the
\* generation service (parse-failure fallback, exception fallback, defaults of
\* the primary path when both fields are absent), with a non-empty breakdown,
\* the verdict is one of the five labels of the guideline and the score lies in
\* its band: True 85-100, Mostly True 70-84, Mixed 50-69, Mostly False 25-49,
\* False 0-24.
C25_ScoreInVerdictBand ==
    (pc = "returned" /\ verified_breakdown # <<>> /\ ComputedLocally) =>
        /\ report.overallVerdict \in DOMAIN GuidelineBand
        /\ report.score \in GuidelineBand[report.overallVerdict]

\* the exception fallback on a breakdown with more contradicted than
\* supported claims: 30, Mostly False
C25_Witness ==
    /\ pc = "returned"
    /\ synth_path.branch = "exception_fallback"
    /\ Len(verified_breakdown) = 3
    /\ Count(verified_breakdown, "Contradicted") = 2
    /\ Count(verified_breakdown, "Supported") = 1
    /\ report.overallVerdict = "Mostly False"
    /\ report.score = 30

\* ---- C26 ----
\* the timestamps of an entry that are less than 60 seconds old at time t
StillInWindow(entry, t) == SelectSeq(entry, LAMBDA x : t - x < 60)

\* at most 10 timestamps, all less than 60 seconds old at time t
WithinWindow(entry, t) ==
    /\ Len(entry) <= 10
    /\ \A i \in 1..Len(entry) : t - entry[i] < 60

\* the step of a request that holds its rate-limit check, for the caller
\* ClientIp at time now: another caller's entry is left as it was; a rejection
\* adds nothing to the caller's entry; an acceptance appends now to it before
\* any claim is extracted
CheckStepFrame ==
    (pc = "received" /\ pc' # "received") =>
        /\ \A ip \in IPs \ {ClientIp} : request_times'[ip] = request_times[ip]
        /\ status' = 429 <=> ~last_check'.ok
        /\ ~last_check'.ok =>
              request_times'[ClientIp] = StillInWindow(request_times[ClientIp], now)
        /\ last_check'.ok =>
              /\ request_times'[ClientIp]
                    = Append(StillInWindow(request_times[ClientIp], now), now)
              /\ claims' = <<>> /\ verified_breakdown' = <<>>

\* the steps after the check leave the ledger alone, so that the timestamp of
\* an accepted request is still its caller's last one when the request ends,
\* whatever the status it ends with
LaterStepsFrame ==
    /\ pc # "received" => request_times' = request_times
    /\ (pc' = "done" /\ last_check'.ok) =>
          /\ request_times'[ClientIp] # <<>>
          /\ request_times'[ClientIp][Len(request_times'[ClientIp])] = last_check'.t

\* C26 as stated: the frame of the check, and after every check the ledger of
\* each caller holds at most 10 timestamps, all less than 60 seconds old at
\* the time of that check.
C26_AsStated ==
    [][/\ CheckStepFrame
       /\ LaterStepsFrame
       /\ (pc = "received" /\ pc' # "received") =>
             \A ip \in IPs : WithinWindow(request_times'[ip], now)]_vars

\* C26: a rate-limit check for one caller never changes another caller's
\* ledger entry; a rejected request adds no timestamp to the ledger; an
\* accepted request's timestamp is recorded before any extraction or generation
\* work and stays recorded when the request later fails; after every check the
\* entry of the caller checked holds at most 10 timestamps, all less than 60
\* seconds old at the time of that check.
C26_CheckFrame ==
    [][/\ CheckStepFrame
       /\ LaterStepsFrame
       /\ (pc = "received" /\ pc' # "received") =>
             WithinWindow(request_times'[ClientIp], now)]_vars

\* a request accepted a whole window after ten others of its caller ends with
\* status 500: the ten are pruned, its own timestamp is kept, and the other
\* caller's entry still holds the timestamp it had, by now 60 seconds old
C26_Witness ==
    /\ pc = "done"
    /\ status = 500
    /\ last_check.ok
    /\ now = 60
    /\ accepted[ClientIp] = FullEntry \o <<60>>
    /\ request_times[ClientIp] = <<60>>
    /\ request_times["ip_b"] = <<0>>

====
